---- MODULE Spec2Model ----
(***************************************************************************)
(* Model of Mask_analysis/Mask_evaluator.py: class MaskTrackEvaluator.     *)
(*                                                                         *)
(* A filename is a sequence of one-character strings.  A decoded raster    *)
(* is a record [ndim, h, w, planes] whose planes are sparse: a function    *)
(* from the pixels <<row, col>> that hold a non-zero sample to that        *)
(* sample.  A binary mask is a record [h, w, fg] with fg the set of        *)
(* foreground pixels.  A number of a results table is an exact rational    *)
(* (floating-point rounding is not modelled).                              *)
(***************************************************************************)
EXTENDS Integers, Sequences, FiniteSets, TLC

VARIABLES
    pc,             \* position of the script: "init", "constructed", "evaluated", "saved",
                    \* "failed"; of a helper called on its own: "called", "returned"
    roi_dir,        \* os.listdir(roi_dir): the names in the predicted-mask directory
    gt_dir,         \* os.listdir(gt_dir)
    track_dir,      \* os.listdir(track_dir)
    store,          \* the files' decoded contents: [roi, gt, track], each a function of the name
    roi_files,      \* self.roi_files
    gt_files,       \* self.gt_files
    track_files,    \* self.track_files
    file_triplets,  \* self.file_triplets
    warned,         \* the identifiers printed by the "Missing sets" warning
    data,           \* self.data: [set, list], set = FALSE until line 30 runs
    io_log,         \* the files read so far, in order
    err,            \* the exception that ended the last call, or "none"
    mask_table,     \* the last value returned by evaluate_mask_metrics
    track_table,    \* the last value returned by evaluate_track_comparison
    workbook,       \* the output workbook: [opened, sheets, closed]
    arg,            \* the argument of a helper called on its own
    res             \* the value it returned

vars == <<pc, roi_dir, gt_dir, track_dir, store, roi_files, gt_files, track_files,
          file_triplets, warned, data, io_log, err, mask_table, track_table,
          workbook, arg, res>>

Unset == "unset"

(***************************************************************************)
(* Bounds of the model.                                                    *)
(***************************************************************************)
MaxNameLen == 4
MaxFiles == 3
MaxFg == 2
MaxRows == 2

(***************************************************************************)
(* Generic helpers.                                                        *)
(***************************************************************************)
Range(s) == {s[i] : i \in 1..Len(s)}

RECURSIVE SeqsUpTo(_, _)
SeqsUpTo(S, n) ==
    IF n = 0 THEN {<<>>}
    ELSE LET shorter == SeqsUpTo(S, n - 1)
         IN  shorter \cup {Append(s, x) : s \in {t \in shorter : Len(t) = n - 1}, x \in S}

DistinctSeqsUpTo(S, n) ==
    {s \in SeqsUpTo(S, n) : \A i, j \in 1..Len(s) : i # j => s[i] # s[j]}

SubsetsUpTo(S, n) == {T \in SUBSET S : Cardinality(T) <= n}

\* sorted(set of integers)
RECURSIVE sorted(_)
sorted(S) ==
    IF S = {} THEN <<>>
    ELSE LET m == CHOOSE x \in S : \A y \in S : x <= y
         IN  <<m>> \o sorted(S \ {m})

(***************************************************************************)
(* Characters: str.lower and the class \d of re.                           *)
(***************************************************************************)
DigitChars == <<"0", "1", "2", "3", "4", "5", "6", "7", "8", "9">>
UpperChars == <<"A", "B", "C", "D", "E", "F", "G", "H", "I", "J", "K", "L", "M",
                "N", "O", "P", "Q", "R", "S", "T", "U", "V", "W", "X", "Y", "Z">>
LowerChars == <<"a", "b", "c", "d", "e", "f", "g", "h", "i", "j", "k", "l", "m",
                "n", "o", "p", "q", "r", "s", "t", "u", "v", "w", "x", "y", "z">>

DigitSet == Range(DigitChars)
UpperSet == Range(UpperChars)

IsDigit(c) == c \in DigitSet
DigitVal(c) == (CHOOSE i \in 1..10 : DigitChars[i] = c) - 1

LowerChar(c) ==
    IF c \in UpperSet
    THEN LowerChars[CHOOSE i \in 1..26 : UpperChars[i] = c]
    ELSE c

lower(s) == [i \in 1..Len(s) |-> LowerChar(s[i])]

endswith(s, suffix) ==
    /\ Len(suffix) <= Len(s)
    /\ SubSeq(s, Len(s) - Len(suffix) + 1, Len(s)) = suffix

\* os.path.splitext(f)[1]: from the last dot on, unless only dots precede it
splitext_ext(f) ==
    LET dots == {i \in 1..Len(f) : f[i] = "."}
    IN  IF dots = {} THEN <<>>
        ELSE LET d == CHOOSE i \in dots : \A j \in dots : j <= i
             IN  IF \E k \in 1..(d - 1) : f[k] # "."
                 THEN SubSeq(f, d, Len(f))
                 ELSE <<>>

(***************************************************************************)
(* _extract_number                                                         *)
(***************************************************************************)
\* re.findall(r'\d+', s): the maximal digit runs, scanned left to right
RECURSIVE findall_digits(_, _, _, _)
findall_digits(s, i, cur, acc) ==
    IF i > Len(s)
    THEN IF cur = <<>> THEN acc ELSE Append(acc, cur)
    ELSE IF IsDigit(s[i])
         THEN findall_digits(s, i + 1, Append(cur, s[i]), acc)
         ELSE findall_digits(s, i + 1, <<>>, IF cur = <<>> THEN acc ELSE Append(acc, cur))

\* int(run) of a digit string
RECURSIVE int_of(_)
int_of(run) ==
    IF run = <<>> THEN 0
    ELSE 10 * int_of(SubSeq(run, 1, Len(run) - 1)) + DigitVal(run[Len(run)])

\* variant: the first digit run instead of the last
extract_number_first(filename) ==
    LET nums == findall_digits(filename, 1, <<>>, <<>>)
    IN  IF nums # <<>> THEN int_of(nums[1]) ELSE -1

extract_number(filename) ==
    LET nums == findall_digits(filename, 1, <<>>, <<>>)
    IN  IF nums # <<>> THEN int_of(nums[Len(nums)]) ELSE -1

(***************************************************************************)
(* _list_images, _list_tracks                                              *)
(***************************************************************************)
exts == { <<".", "t", "i", "f">>, <<".", "t", "i", "f", "f">>, <<".", "p", "n", "g">>,
          <<".", "j", "p", "g">>, <<".", "j", "p", "e", "g">>, <<".", "b", "m", "p">> }

\* f placed after the names of `placed` whose number is not above its own
insert_by_number(placed, f) ==
    LET k == Cardinality({i \in 1..Len(placed) :
                            extract_number(placed[i]) <= extract_number(f)})
    IN  SubSeq(placed, 1, k) \o <<f>> \o SubSeq(placed, k + 1, Len(placed))

\* sorted(files, key=self._extract_number): stable
RECURSIVE sorted_by_number(_)
sorted_by_number(files) ==
    IF files = <<>> THEN <<>>
    ELSE insert_by_number(sorted_by_number(SubSeq(files, 1, Len(files) - 1)),
                          files[Len(files)])

list_images(folder) ==
    sorted_by_number(SelectSeq(folder, LAMBDA f : lower(splitext_ext(f)) \in exts))

list_tracks(folder) ==
    sorted_by_number(SelectSeq(folder, LAMBDA f : endswith(lower(f), <<".", "c", "s", "v">>)))

(***************************************************************************)
(* _align_files                                                            *)
(***************************************************************************)
\* {self._extract_number(f): f for f in files}: a later file replaces an earlier one
number_map(files) ==
    [n \in {extract_number(files[i]) : i \in 1..Len(files)} |->
        files[CHOOSE i \in 1..Len(files) :
                /\ extract_number(files[i]) = n
                /\ \A j \in 1..Len(files) : extract_number(files[j]) = n => j <= i]]

aligned_numbers(rf, gf, tf) ==
    (DOMAIN number_map(rf)) \cap (DOMAIN number_map(gf)) \cap (DOMAIN number_map(tf))

align_files(rf, gf, tf) ==
    LET roi_map   == number_map(rf)
        gt_map    == number_map(gf)
        track_map == number_map(tf)
        nums      == sorted(aligned_numbers(rf, gf, tf))
    IN  [i \in 1..Len(nums) |->
            <<nums[i], roi_map[nums[i]], gt_map[nums[i]], track_map[nums[i]]>>]

\* variant: the track tables' identifiers left out of the report
missing_numbers_without_tracks(rf, gf, tf, aligned) ==
    LET all_nums == (DOMAIN number_map(rf)) \cup (DOMAIN number_map(gf))
    IN  all_nums \ {aligned[i][1] : i \in 1..Len(aligned)}

\* lines 77-80: the identifiers the warning prints
missing_numbers(rf, gf, tf, aligned) ==
    LET all_nums == (DOMAIN number_map(rf)) \cup (DOMAIN number_map(gf))
                        \cup (DOMAIN number_map(tf))
    IN  all_nums \ {aligned[i][1] : i \in 1..Len(aligned)}

(***************************************************************************)
(* Numbers of a results table: (n + k * 2^64) / d, d > 0, in lowest terms. *)
(* k # 0 only for a count that wrapped around in unsigned 64-bit           *)
(* arithmetic.                                                             *)
(***************************************************************************)
Abs(x) == IF x < 0 THEN -x ELSE x

RECURSIVE Gcd(_, _)
Gcd(a, b) == IF b = 0 THEN Abs(a) ELSE Gcd(b, a % b)

Num(n, k, d) ==
    LET g == Gcd(Gcd(Abs(n), Abs(k)), d)
    IN  [n |-> n \div g, k |-> k \div g, d |-> d \div g]

IntNum(n) == Num(n, 0, 1)
Frac(n, d) == Num(n, 0, d)
One == IntNum(1)
Zero == IntNum(0)

NumAdd(a, b) == Num(a.n * b.d + b.n * a.d, a.k * b.d + b.k * a.d, a.d * b.d)
NumDivInt(a, m) == Num(a.n, a.k, a.d * m)
IsNegative(a) == a.k < 0 \/ (a.k = 0 /\ a.n < 0)

(***************************************************************************)
(* _read_mask, _read_gt                                                    *)
(***************************************************************************)
CanonSize == 428

\* io.imread succeeded; img[..., 0] of a 3-D raster, then (img > 0)
read_mask(img) ==
    LET plane == IF img.ndim = 3 THEN img.planes[1] ELSE img.planes[Len(img.planes)]
    IN  [h |-> img.h, w |-> img.w, fg |-> {p \in DOMAIN plane : plane[p] > 0}]

\* mask[sh:sh + 428, sw:sw + 428]
crop(mask, sh, sw) ==
    [h |-> CanonSize, w |-> CanonSize,
     fg |-> {<<p[1] - sh, p[2] - sw>> :
                p \in {q \in mask.fg : /\ sh <= q[1] /\ q[1] < sh + CanonSize
                                       /\ sw <= q[2] /\ q[2] < sw + CanonSize}}]

\* The input sample that order-0 resampling takes for output index i:
\* floor((i + 1/2) * size / 428)
nearest_index(i, size) == ((2 * i + 1) * size) \div (2 * CanonSize)

\* skt.resize(mask, (428, 428), order=0, ...) > 0.5
resize_binarize(mask) ==
    LET rows(r) == {i \in 0..(CanonSize - 1) : nearest_index(i, mask.h) = r}
        cols(c) == {j \in 0..(CanonSize - 1) : nearest_index(j, mask.w) = c}
    IN  [h |-> CanonSize, w |-> CanonSize,
         fg |-> UNION {rows(p[1]) \X cols(p[2]) : p \in mask.fg}]

center_offset(size) == (size - CanonSize) \div 2

\* variant: the window taken from the top-left corner
read_gt_crop_from_origin(img) ==
    LET mask == read_mask(img)
    IN  IF <<mask.h, mask.w>> = <<CanonSize, CanonSize>> THEN mask
        ELSE IF mask.h >= CanonSize /\ mask.w >= CanonSize
             THEN crop(mask, 0, 0)
             ELSE resize_binarize(mask)

read_gt(img) ==
    LET mask == read_mask(img)
    IN  IF <<mask.h, mask.w>> = <<CanonSize, CanonSize>> THEN mask
        ELSE IF mask.h >= CanonSize /\ mask.w >= CanonSize
             THEN crop(mask, center_offset(mask.h), center_offset(mask.w))
             ELSE resize_binarize(mask)

(***************************************************************************)
(* _load_tracks.  A parsed CSV is [columns, rows]; a row is                *)
(* [Frame, TrackID, Xnm, Ynm], and a column absent from `columns` raises   *)
(* KeyError when it is read.                                               *)
(***************************************************************************)
NmPerPixel == 117

\* (x / nm_per_pixel).round().astype(int): round half to even
round_div(x, s) ==
    LET q == x \div s
        r == x - q * s
    IN  IF 2 * r < s THEN q
        ELSE IF 2 * r > s THEN q + 1
        ELSE IF q % 2 = 0 THEN q ELSE q + 1

load_tracks_ok(csv) == {" X (nm)", "Y (nm)"} \subseteq csv.columns

load_tracks(csv) ==
    [columns |-> csv.columns \cup {" X (px)", "Y (px)"},
     rows    |-> [i \in 1..Len(csv.rows) |->
                    [Frame   |-> csv.rows[i].Frame,
                     TrackID |-> csv.rows[i].TrackID,
                     Xnm     |-> csv.rows[i].Xnm,
                     Ynm     |-> csv.rows[i].Ynm,
                     Xpx     |-> round_div(csv.rows[i].Xnm, NmPerPixel),
                     Ypx     |-> round_div(csv.rows[i].Ynm, NmPerPixel)]]]

(***************************************************************************)
(* Metrics.  np.logical_and / np.logical_or broadcast an axis of length 1. *)
(***************************************************************************)
broadcastable(a, b) ==
    /\ a.h = b.h \/ a.h = 1 \/ b.h = 1
    /\ a.w = b.w \/ a.w = 1 \/ b.w = 1

\* a.sum()
mask_sum(a) == Cardinality(a.fg)

\* the foreground pixels of np.logical_and(a, b)
logical_and(a, b) ==
    {<<IF a.h = 1 THEN pq[2][1] ELSE pq[1][1], IF a.w = 1 THEN pq[2][2] ELSE pq[1][2]>> :
        pq \in {x \in a.fg \X b.fg :
                  /\ a.h = 1 \/ b.h = 1 \/ x[1][1] = x[2][1]
                  /\ a.w = 1 \/ b.w = 1 \/ x[1][2] = x[2][2]}}

\* the number of foreground pixels of m broadcast against o
broadcast_sum(m, o) ==
    mask_sum(m) * (IF m.h = 1 THEN o.h ELSE 1) * (IF m.w = 1 THEN o.w ELSE 1)

and_sum(a, b) == Cardinality(logical_and(a, b))
or_sum(a, b) == broadcast_sum(a, b) + broadcast_sum(b, a) - and_sum(a, b)

\* variant: 0 for an empty union
jaccard_index_no_guard(a, b) ==
    LET inter == and_sum(a, b)
        union == or_sum(a, b)
    IN  IF union = 0 THEN Zero ELSE Frac(inter, union)

jaccard_index(a, b) ==
    LET inter == and_sum(a, b)
        union == or_sum(a, b)
    IN  IF union = 0 THEN One ELSE Frac(inter, union)

dice_coefficient(a, b) ==
    LET inter == and_sum(a, b)
        denom == mask_sum(a) + mask_sum(b)
    IN  IF denom = 0 THEN One ELSE Frac(2 * inter, denom)

(***************************************************************************)
(* __init__: the load loop of lines 30-43.  A file's content is a record   *)
(* with a field ok; ok = FALSE is a file the decoder or parser rejects.    *)
(***************************************************************************)
\* the exception loading the triplet t raises, or "none"
entry_error(st, t) ==
    IF ~st.roi[t[2]].ok THEN "IOError"
    ELSE IF ~st.gt[t[3]].ok THEN "IOError"
    ELSE IF ~st.track[t[4]].ok THEN "ParserError"
    ELSE IF ~load_tracks_ok(st.track[t[4]]) THEN "KeyError"
    ELSE "none"

\* the files the loop reads for the triplet t, up to the one that fails
entry_reads(st, t) ==
    IF ~st.roi[t[2]].ok THEN <<t[2]>>
    ELSE IF ~st.gt[t[3]].ok THEN <<t[2], t[3]>>
    ELSE <<t[2], t[3], t[4]>>

load_entry(st, t) ==
    [file_number |-> t[1],
     roi_file    |-> t[2],
     gt_file     |-> t[3],
     track_file  |-> t[4],
     roi_mask    |-> read_mask(st.roi[t[2]]),
     gt_mask     |-> read_gt(st.gt[t[3]]),
     tracks      |-> load_tracks(st.track[t[4]])]

\* the index of the first triplet whose load raises, or 0
first_failure(st, triplets) ==
    LET bad == {i \in 1..Len(triplets) : entry_error(st, triplets[i]) # "none"}
    IN  IF bad = {} THEN 0 ELSE CHOOSE i \in bad : \A j \in bad : i <= j

RECURSIVE reads_upto(_, _, _)
reads_upto(st, triplets, n) ==
    IF n = 0 THEN <<>>
    ELSE reads_upto(st, triplets, n - 1) \o entry_reads(st, triplets[n])

\* variant: without the test of line 26
load_all_skip_check(st, triplets) ==
    LET f == first_failure(st, triplets)
        n == IF f = 0 THEN Len(triplets) ELSE f - 1
    IN  [err  |-> IF f # 0 THEN entry_error(st, triplets[f]) ELSE "none",
         data |-> [set |-> TRUE, list |-> [i \in 1..n |-> load_entry(st, triplets[i])]],
         log  |-> reads_upto(st, triplets, IF f = 0 THEN n ELSE f)]

\* lines 26-43: [err, data, log]
load_all(st, triplets) ==
    IF triplets = <<>>
    THEN [err |-> "ValueError", data |-> [set |-> FALSE, list |-> <<>>], log |-> <<>>]
    ELSE LET f == first_failure(st, triplets)
             n == IF f = 0 THEN Len(triplets) ELSE f - 1
         IN  [err  |-> IF f # 0 THEN entry_error(st, triplets[f]) ELSE "none",
              data |-> [set |-> TRUE, list |-> [i \in 1..n |-> load_entry(st, triplets[i])]],
              log  |-> reads_upto(st, triplets, IF f = 0 THEN n ELSE f)]

(***************************************************************************)
(* Results tables: [columns, numeric, rows]; a row is a function of the    *)
(* column name; a cell is a number, a text [s |-> ...] or NaN.             *)
(***************************************************************************)
NaN == [nan |-> TRUE]
Text(s) == [s |-> s]
IsNum(cell) == "n" \in DOMAIN cell
EmptyTable == [columns |-> <<>>, numeric |-> {}, rows |-> <<>>]

MetricsColumns == <<"File Number", "ROI File", "GT File", "Jaccard Index",
                    "Dice Coefficient", "Intersection", "False Positives">>
MetricsNumeric == {"File Number", "Jaccard Index", "Dice Coefficient",
                   "Intersection", "False Positives"}

\* int(roi.sum() - inter): roi.sum() is an unsigned 64-bit scalar; below zero the
\* difference wraps (numpy2) or is computed in floating point
false_positives(roi, inter, numpy2) ==
    IF mask_sum(roi) >= inter THEN IntNum(mask_sum(roi) - inter)
    ELSE IF numpy2 THEN Num(mask_sum(roi) - inter, 1, 1)
    ELSE IntNum(mask_sum(roi) - inter)

metrics_row(entry, numpy2) ==
    LET roi   == entry.roi_mask
        gt    == entry.gt_mask
        inter == and_sum(roi, gt)
    IN  ("File Number" :> IntNum(entry.file_number))
        @@ ("ROI File" :> Text(entry.roi_file))
        @@ ("GT File" :> Text(entry.gt_file))
        @@ ("Jaccard Index" :> jaccard_index(roi, gt))
        @@ ("Dice Coefficient" :> dice_coefficient(roi, gt))
        @@ ("Intersection" :> IntNum(inter))
        @@ ("False Positives" :> false_positives(roi, inter, numpy2))

\* np.logical_and raises ValueError on shapes that do not broadcast
mask_metrics_error(entries) ==
    IF \E i \in 1..Len(entries) : ~broadcastable(entries[i].roi_mask, entries[i].gt_mask)
    THEN "ValueError" ELSE "none"

evaluate_mask_metrics(entries, numpy2) ==
    [columns |-> MetricsColumns,
     numeric |-> MetricsNumeric,
     rows    |-> [i \in 1..Len(entries) |-> metrics_row(entries[i], numpy2)]]

(***************************************************************************)
(* find_track_ids_in_mask, evaluate_track_comparison                       *)
(***************************************************************************)
\* the rows whose (x, y) is in set(zip(x_idx, y_idx)) of np.where(mask == 1)
rows_in_mask(mask, rows) ==
    {i \in 1..Len(rows) : <<rows[i].Ypx, rows[i].Xpx>> \in mask.fg}

find_track_ids_in_mask(mask, rows) ==
    {rows[i].TrackID : i \in rows_in_mask(mask, rows)}

first_frame_tracks(tracks) == SelectSeq(tracks.rows, LAMBDA r : r.Frame = 1)

pred_ids(entry) == find_track_ids_in_mask(entry.roi_mask, first_frame_tracks(entry.tracks))
gt_ids(entry) == find_track_ids_in_mask(entry.gt_mask, first_frame_tracks(entry.tracks))

extra_ids(entry) == sorted(pred_ids(entry) \ gt_ids(entry))

\* variant: the difference taken the other way round
lost_ids_swapped(entry) == sorted(pred_ids(entry) \ gt_ids(entry))

lost_ids(entry) == sorted(gt_ids(entry) \ pred_ids(entry))

\* str(n)
RECURSIVE str_of_nat(_)
str_of_nat(n) ==
    IF n < 10 THEN <<DigitChars[n + 1]>>
    ELSE str_of_nat(n \div 10) \o <<DigitChars[(n % 10) + 1]>>

str_of_int(n) == IF n < 0 THEN <<"-">> \o str_of_nat(-n) ELSE str_of_nat(n)

\* ",".join(map(str, ids)) if ids else ""
RECURSIVE join_ids(_)
join_ids(ids) ==
    IF ids = <<>> THEN <<>>
    ELSE IF Len(ids) = 1 THEN str_of_int(ids[1])
    ELSE join_ids(SubSeq(ids, 1, Len(ids) - 1)) \o <<",">> \o str_of_int(ids[Len(ids)])

TrackColumns == <<"File Number", "ROI File", "GT File", "Track File", "Num Extra",
                  "Num Lost", "Extra Track IDs", "Lost Track IDs">>
TrackNumeric == {"File Number", "Num Extra", "Num Lost"}

track_row(entry) ==
    ("File Number" :> IntNum(entry.file_number))
    @@ ("ROI File" :> Text(entry.roi_file))
    @@ ("GT File" :> Text(entry.gt_file))
    @@ ("Track File" :> Text(entry.track_file))
    @@ ("Num Extra" :> IntNum(Len(extra_ids(entry))))
    @@ ("Num Lost" :> IntNum(Len(lost_ids(entry))))
    @@ ("Extra Track IDs" :> Text(join_ids(extra_ids(entry))))
    @@ ("Lost Track IDs" :> Text(join_ids(lost_ids(entry))))

\* df['Frame'] raises KeyError without that column; row['Track ID'] is read, and
\* raises, only for a first-frame row that lies on foreground
track_entry_error(entry) ==
    IF "Frame" \notin entry.tracks.columns THEN "KeyError"
    ELSE IF /\ "Track ID" \notin entry.tracks.columns
            /\ (rows_in_mask(entry.roi_mask, first_frame_tracks(entry.tracks))
                  \cup rows_in_mask(entry.gt_mask, first_frame_tracks(entry.tracks))) # {}
         THEN "KeyError"
    ELSE "none"

track_comparison_error(entries) ==
    IF \E i \in 1..Len(entries) : track_entry_error(entries[i]) # "none"
    THEN "KeyError" ELSE "none"

evaluate_track_comparison(entries) ==
    [columns |-> TrackColumns,
     numeric |-> TrackNumeric,
     rows    |-> [i \in 1..Len(entries) |-> track_row(entries[i])]]

(***************************************************************************)
(* summarize_results                                                       *)
(***************************************************************************)
RECURSIVE column_sum(_, _, _)
column_sum(rows, col, n) ==
    IF n = 0 THEN Zero ELSE NumAdd(column_sum(rows, col, n - 1), rows[n][col])

\* variant: the sum left undivided
column_mean_as_sum(rows, col) == column_sum(rows, col, Len(rows))

\* df[col].mean()
column_mean(rows, col) == NumDivInt(column_sum(rows, col, Len(rows)), Len(rows))

\* pd.concat([df, pd.DataFrame([summary])], ignore_index=True)
concat_row(df, summary) ==
    LET new  == IF "File Number" \in Range(df.columns) THEN <<>> ELSE <<"File Number">>
        cols == df.columns \o new
        fill(row) == [c \in Range(cols) |-> IF c \in DOMAIN row THEN row[c] ELSE NaN]
    IN  [columns |-> cols,
         numeric |-> df.numeric \ {"File Number"},
         rows    |-> [i \in 1..Len(df.rows) |-> fill(df.rows[i])] \o <<fill(summary)>>]

summarize_results(df, label) ==
    LET means   == [c \in df.numeric |-> column_mean(df.rows, c)]
        summary == ("File Number" :> Text(label)) @@ means
    IN  concat_row(df, summary)

DefaultLabel == "Overall Average"

(***************************************************************************)
(* The files and contents the model draws from.                            *)
(***************************************************************************)
F_a1_tif == <<"a", "1", ".", "t", "i", "f">>
F_b1_png == <<"b", "1", ".", "p", "n", "g">>
F_c2_TIF == <<"c", "2", ".", "T", "I", "F">>
F_x_tif  == <<"x", ".", "t", "i", "f">>
F_e2_txt == <<"e", "2", ".", "t", "x", "t">>
F_g1_tif == <<"g", "1", ".", "t", "i", "f">>
F_g2_png == <<"g", "0", "2", ".", "p", "n", "g">>
F_y_bmp  == <<"y", ".", "b", "m", "p">>
F_t1_csv == <<"t", "1", ".", "c", "s", "v">>
F_t2_CSV == <<"3", "t", "2", ".", "C", "S", "V">>
F_n_csv  == <<"n", ".", "c", "s", "v">>

RoiPool == {F_a1_tif, F_b1_png, F_c2_TIF, F_x_tif, F_e2_txt}
GtPool == {F_g1_tif, F_g2_png, F_y_bmp}
TrackPool == {F_t1_csv, F_t2_CSV, F_n_csv}

BadFile == [ok |-> FALSE]

Image(h, w, fg) ==
    [ok |-> TRUE, ndim |-> 2, h |-> h, w |-> w, planes |-> <<[p \in fg |-> 255]>>]

\* a raster with a second channel that differs from the first
Image3(h, w, fg, other) ==
    [ok |-> TRUE, ndim |-> 3, h |-> h, w |-> w,
     planes |-> <<[p \in fg |-> 255], [p \in other |-> 7]>>]

AllColumns == {"Frame", "Track ID", " X (nm)", "Y (nm)"}
Csv(columns, rows) == [ok |-> TRUE, columns |-> columns, rows |-> rows]

\* two pixels <<row, col>> and positions in nm that round to them
PixelA == <<10, 10>>
PixelB == <<0, 3>>
TrackRow(frame, id, p) ==
    [Frame |-> frame, TrackID |-> id,
     Xnm |-> IF p = PixelA THEN 1200 ELSE 400,
     Ynm |-> IF p = PixelA THEN 1140 ELSE 40]

RowPool == {TrackRow(1, 1, PixelA), TrackRow(1, 1, PixelB), TrackRow(1, 2, PixelA),
            TrackRow(1, 2, PixelB), TrackRow(2, 1, PixelB)}

RoiContents ==
    {Image(CanonSize, CanonSize, fg) : fg \in SUBSET {PixelA, PixelB}}
        \cup {Image(1, 1, {<<0, 0>>}), Image(2, 2, {<<0, 0>>}), BadFile}

GtContents ==
    {Image(CanonSize, CanonSize, fg) : fg \in SUBSET {PixelA, PixelB}}
        \cup {Image(500, 500, {<<46, 46>>, <<36, 39>>, <<0, 0>>}), BadFile}

TrackContents ==
    {Csv(AllColumns, rows) : rows \in SeqsUpTo(RowPool, MaxRows)}
        \cup {Csv(AllColumns \ {"Frame"}, <<TrackRow(1, 1, PixelA)>>),
              Csv(AllColumns \ {"Track ID"}, <<TrackRow(1, 1, PixelA)>>),
              Csv(AllColumns \ {" X (nm)"}, <<TrackRow(1, 1, PixelA)>>),
              BadFile}

(***************************************************************************)
(* The script: construct an evaluator (line 217), then call it (line 218). *)
(***************************************************************************)
NoWorkbook == [opened |-> FALSE, sheets |-> <<>>, closed |-> FALSE]
NoData == [set |-> FALSE, list |-> <<>>]

ObjectFresh ==
    /\ roi_files = <<>> /\ gt_files = <<>> /\ track_files = <<>>
    /\ file_triplets = <<>> /\ warned = {}
    /\ data = NoData /\ io_log = <<>> /\ err = "none"
    /\ mask_table = EmptyTable /\ track_table = EmptyTable
    /\ workbook = NoWorkbook

NoHelper == arg = Unset /\ res = Unset

\* every directory listing over the pools; one predicted mask is unreadable
InitAlign ==
    /\ pc = "init"
    /\ roi_dir \in DistinctSeqsUpTo(RoiPool, MaxFiles)
    /\ gt_dir \in DistinctSeqsUpTo(GtPool, MaxFiles)
    /\ track_dir \in DistinctSeqsUpTo(TrackPool, MaxFiles)
    /\ store = [roi   |-> [f \in RoiPool |-> IF f = F_c2_TIF THEN BadFile
                                               ELSE Image(CanonSize, CanonSize, {})],
                 gt    |-> [f \in GtPool |-> Image(CanonSize, CanonSize, {})],
                 track |-> [f \in TrackPool |-> Csv(AllColumns, <<>>)]]
    /\ ObjectFresh
    /\ NoHelper

\* one or two aligned sets, every content of the first
InitRun ==
    /\ pc = "init"
    /\ \E n \in 1..2 :
        /\ roi_dir = SubSeq(<<F_a1_tif, F_c2_TIF>>, 1, n)
        /\ gt_dir = SubSeq(<<F_g1_tif, F_g2_png>>, 1, n)
        /\ track_dir = SubSeq(<<F_t1_csv, F_t2_CSV>>, 1, n)
    /\ \E r \in RoiContents, g \in GtContents, t \in TrackContents :
        store = [roi   |-> (F_a1_tif :> r) @@ (F_c2_TIF :> Image(CanonSize, CanonSize, {PixelA})),
                 gt    |-> (F_g1_tif :> g) @@ (F_g2_png :> Image(CanonSize, CanonSize, {PixelA, PixelB})),
                 track |-> (F_t1_csv :> t) @@ (F_t2_CSV :> Csv(AllColumns, <<TrackRow(1, 1, PixelB)>>))]
    /\ ObjectFresh
    /\ NoHelper

\* MaskTrackEvaluator(roi_dir, gt_dir, track_dir)
Construct ==
    /\ pc = "init"
    /\ \E rf \in {list_images(roi_dir)}, gf \in {list_images(gt_dir)},
          tf \in {list_tracks(track_dir)} :
        \E triplets \in {align_files(rf, gf, tf)} :
            \E loaded \in {load_all(store, triplets)} :
                /\ roi_files' = rf
                /\ gt_files' = gf
                /\ track_files' = tf
                /\ file_triplets' = triplets
                /\ warned' = missing_numbers(rf, gf, tf, triplets)
                /\ data' = loaded.data
                /\ io_log' = loaded.log
                /\ err' = loaded.err
                /\ pc' = IF loaded.err = "none" THEN "constructed" ELSE "failed"
    /\ UNCHANGED <<roi_dir, gt_dir, track_dir, store, mask_table, track_table,
                   workbook, arg, res>>

\* evaluator.evaluate_mask_metrics()
EvaluateMaskMetrics ==
    /\ pc = "constructed"
    /\ \E numpy2 \in BOOLEAN, e \in {mask_metrics_error(data.list)} :
            /\ err' = e
            /\ mask_table' = IF e = "none" THEN evaluate_mask_metrics(data.list, numpy2)
                             ELSE mask_table
            /\ pc' = IF e = "none" THEN "evaluated" ELSE "failed"
    /\ UNCHANGED <<roi_dir, gt_dir, track_dir, store, roi_files, gt_files, track_files,
                   file_triplets, warned, data, io_log, track_table, workbook, arg, res>>

\* evaluator.evaluate_track_comparison()
EvaluateTrackComparison ==
    /\ pc = "constructed"
    /\ \E e \in {track_comparison_error(data.list)} :
           /\ err' = e
           /\ track_table' = IF e = "none" THEN evaluate_track_comparison(data.list)
                             ELSE track_table
           /\ pc' = IF e = "none" THEN "evaluated" ELSE "failed"
    /\ UNCHANGED <<roi_dir, gt_dir, track_dir, store, roi_files, gt_files, track_files,
                   file_triplets, warned, data, io_log, mask_table, workbook, arg, res>>

Sheet(name, table) == [name |-> name, table |-> table]

\* lines 199-204: [err, workbook].  The writer is opened first; leaving the with
\* block, by return or by exception, closes it with the sheets written so far
save_results(entries, track_comparison, numpy2) ==
    LET e1 == mask_metrics_error(entries)
        e2 == IF track_comparison THEN track_comparison_error(entries) ELSE "none"
        s1 == Sheet("Mask Metrics",
                    summarize_results(evaluate_mask_metrics(entries, numpy2), DefaultLabel))
        s2 == Sheet("Track Comparison",
                    summarize_results(evaluate_track_comparison(entries), DefaultLabel))
    IN  IF e1 # "none"
        THEN [err |-> e1, workbook |-> [opened |-> TRUE, sheets |-> <<>>, closed |-> TRUE]]
        ELSE IF e2 # "none"
        THEN [err |-> e2, workbook |-> [opened |-> TRUE, sheets |-> <<s1>>, closed |-> TRUE]]
        ELSE [err |-> "none",
              workbook |-> [opened |-> TRUE, closed |-> TRUE,
                            sheets |-> IF track_comparison THEN <<s1, s2>> ELSE <<s1>>]]

\* evaluator.save_results(excel_filename, track_comparison)
SaveResults ==
    /\ pc = "constructed"
    /\ \E track_comparison \in BOOLEAN, numpy2 \in BOOLEAN :
        \E r \in {save_results(data.list, track_comparison, numpy2)} :
            /\ err' = r.err
            /\ workbook' = r.workbook
            /\ pc' = IF r.err = "none" THEN "saved" ELSE "failed"
    /\ UNCHANGED <<roi_dir, gt_dir, track_dir, store, roi_files, gt_files, track_files,
                   file_triplets, warned, data, io_log, mask_table, track_table, arg, res>>

NextAlign == Construct
SpecAlign == InitAlign /\ [][NextAlign]_vars

Next == Construct \/ EvaluateMaskMetrics \/ EvaluateTrackComparison \/ SaveResults
Spec == InitRun /\ [][Next]_vars

(***************************************************************************)
(* The helpers called on their own, on every input within the bounds.      *)
(***************************************************************************)
NoObject ==
    /\ roi_dir = <<>> /\ gt_dir = <<>> /\ track_dir = <<>>
    /\ store = [roi |-> <<>>, gt |-> <<>>, track |-> <<>>]
    /\ ObjectFresh

HelperFrame ==
    UNCHANGED <<roi_dir, gt_dir, track_dir, store, roi_files, gt_files, track_files,
                file_triplets, warned, data, io_log, err, mask_table, track_table,
                workbook, arg>>

NameChars == {"a", ".", "_", "0", "1", "7"}

InitExtract ==
    /\ pc = "called"
    /\ arg \in SeqsUpTo(NameChars, MaxNameLen)
    /\ res = Unset
    /\ NoObject

\* self._extract_number(filename)
ExtractNumber ==
    /\ pc = "called"
    /\ res' = extract_number(arg)
    /\ pc' = "returned"
    /\ HelperFrame

SpecExtract == InitExtract /\ [][ExtractNumber]_vars

Grid(h, w) == (0..(h - 1)) \X (0..(w - 1))
Mask(h, w, fg) == [h |-> h, w |-> w, fg |-> fg]

\* pairs of masks of one shape
InitMetrics ==
    /\ pc = "called"
    /\ \E shape \in {<<3, 3>>, <<1, 2>>} :
        \E fa \in SubsetsUpTo(Grid(shape[1], shape[2]), MaxFg),
           fb \in SubsetsUpTo(Grid(shape[1], shape[2]), MaxFg) :
            arg = [a |-> Mask(shape[1], shape[2], fa), b |-> Mask(shape[1], shape[2], fb)]
    /\ res = Unset
    /\ NoObject

\* self.jaccard_index(a, b), self.dice_coefficient(a, b)
ComputeMetrics ==
    /\ pc = "called"
    /\ res' = [jaccard |-> jaccard_index(arg.a, arg.b),
               dice    |-> dice_coefficient(arg.a, arg.b)]
    /\ pc' = "returned"
    /\ HelperFrame

SpecMetrics == InitMetrics /\ [][ComputeMetrics]_vars

\* pixels of an h x w raster around the corners, the centre and the crop window
GtProbes(h, w) ==
    {<<0, 0>>, <<h - 1, w - 1>>, <<h \div 2, w \div 2>>, <<36, 36>>, <<35, 36>>, <<0, 463>>}
        \cap Grid(h, w)

InitReadGt ==
    /\ pc = "called"
    /\ \E h \in {400, 428, 429, 500}, w \in {400, 428, 429, 500} :
        \E fg \in SubsetsUpTo(GtProbes(h, w), MaxFg) :
            arg \in {Image(h, w, fg), Image3(h, w, fg, {<<0, 0>>, <<36, 36>>})}
    /\ res = Unset
    /\ NoObject

\* self._read_gt(path), the file decoded
ReadGt ==
    /\ pc = "called"
    /\ res' = read_gt(arg)
    /\ pc' = "returned"
    /\ HelperFrame

SpecReadGt == InitReadGt /\ [][ReadGt]_vars

SummaryColumns == <<"File Number", "ROI File", "Jaccard Index", "Intersection">>

SummaryRows(numbered) ==
    {("File Number" :> (IF numbered THEN IntNum(id) ELSE Text(F_a1_tif)))
        @@ ("ROI File" :> Text(F_a1_tif))
        @@ ("Jaccard Index" :> j)
        @@ ("Intersection" :> IntNum(i)) :
        id \in {1, 2}, j \in {Zero, Frac(1, 2), One}, i \in {0, 3}}

\* tables of 1..MaxRows rows, File Number numeric or text
InitSummarize ==
    /\ pc = "called"
    /\ \E numbered \in BOOLEAN, label \in {DefaultLabel, "Mean"} :
        \E rows \in SeqsUpTo(SummaryRows(numbered), MaxRows) \ {<<>>} :
            arg = [df    |-> [columns |-> SummaryColumns,
                              numeric |-> {"Jaccard Index", "Intersection"}
                                            \cup (IF numbered THEN {"File Number"} ELSE {}),
                              rows    |-> rows],
                   label |-> label]
    /\ res = Unset
    /\ NoObject

\* self.summarize_results(df, label)
SummarizeResults ==
    /\ pc = "called"
    /\ res' = summarize_results(arg.df, arg.label)
    /\ pc' = "returned"
    /\ HelperFrame

SpecSummarize == InitSummarize /\ [][SummarizeResults]_vars

(***************************************************************************)
(* Properties.                                                             *)
(***************************************************************************)
DigitPositions(s) == {i \in 1..Len(s) : IsDigit(s[i])}
LastRunEnd(s) == CHOOSE e \in DigitPositions(s) : \A i \in DigitPositions(s) : i <= e
LastRunStart(s) ==
    CHOOSE b \in 1..LastRunEnd(s) :
        /\ \A j \in b..LastRunEnd(s) : IsDigit(s[j])
        /\ b = 1 \/ ~IsDigit(s[b - 1])

RECURSIVE Pow10(_)
Pow10(k) == IF k = 0 THEN 1 ELSE 10 * Pow10(k - 1)

RECURSIVE DecimalValue(_, _, _)
DecimalValue(s, b, e) ==
    IF b > e THEN 0 ELSE DigitVal(s[b]) * Pow10(e - b) + DecimalValue(s, b + 1, e)

\* C8: _extract_number returns the value of the last maximal run of decimal digits
\* of the filename, and -1 exactly when the filename holds no digit.
C8_ExtractLastRun ==
    pc = "returned" =>
        /\ (res = -1) <=> (DigitPositions(arg) = {})
        /\ DigitPositions(arg) # {} =>
              res = DecimalValue(arg, LastRunStart(arg), LastRunEnd(arg))

\* a name with two digit runs, the last with a leading zero
C8_Witness ==
    pc = "returned" /\ arg = <<"1", "_", "0", "7">> /\ res = 7

\* C5: on masks of one shape, Jaccard and Dice are 1 for two empty masks, 0 for
\* disjoint nonempty masks, 1 for identical nonempty masks, and always a
\* well-defined quotient.
C5_MetricCases ==
    pc = "returned" =>
        LET a == arg.a.fg
            b == arg.b.fg
        IN  /\ res.jaccard.d > 0 /\ res.dice.d > 0
            /\ (a = {} /\ b = {}) => (res.jaccard = One /\ res.dice = One)
            /\ (a # {} /\ b # {} /\ a \cap b = {}) => (res.jaccard = Zero /\ res.dice = Zero)
            /\ (a # {} /\ a = b) => (res.jaccard = One /\ res.dice = One)

\* two empty masks have been compared
C5_Witness ==
    pc = "returned" /\ arg.a.h = 3 /\ arg.a.fg = {} /\ arg.b.fg = {} /\ res.jaccard = One

\* C10: _read_gt returns a binary 428 x 428 grid: the input itself when it is
\* 428 x 428; the window at offset (floor((h-428)/2), floor((w-428)/2)) when both
\* sides are at least 428; the whole grid resampled otherwise.
C10_ReadGtTiers ==
    pc = "returned" =>
        LET in == [h |-> arg.h, w |-> arg.w,
                   fg |-> {p \in DOMAIN arg.planes[1] : arg.planes[1][p] > 0}]
            sh == (in.h - CanonSize) \div 2
            sw == (in.w - CanonSize) \div 2
        IN  /\ res.h = CanonSize /\ res.w = CanonSize
            /\ res.fg \subseteq Grid(CanonSize, CanonSize)
            /\ (in.h = CanonSize /\ in.w = CanonSize) => res = in
            /\ (in.h >= CanonSize /\ in.w >= CanonSize) =>
                  /\ \A p \in res.fg : <<p[1] + sh, p[2] + sw>> \in in.fg
                  /\ \A q \in in.fg :
                        <<q[1] - sh, q[2] - sw>> \in Grid(CanonSize, CanonSize)
                            => <<q[1] - sh, q[2] - sw>> \in res.fg
            /\ (in.h < CanonSize \/ in.w < CanonSize) =>
                  /\ \A p \in res.fg :
                        <<((2 * p[1] + 1) * in.h) \div (2 * CanonSize),
                          ((2 * p[2] + 1) * in.w) \div (2 * CanonSize)>> \in in.fg
                  /\ \A q \in in.fg :
                        \A i \in 0..(CanonSize - 1) :
                            ((2 * i + 1) * in.h) \div (2 * CanonSize) = q[1] =>
                                \A j \in 0..(CanonSize - 1) :
                                    ((2 * j + 1) * in.w) \div (2 * CanonSize) = q[2]
                                        => <<i, j>> \in res.fg

\* a 500 x 500 raster whose pixel (36, 36) became pixel (0, 0)
C10_Witness ==
    /\ pc = "returned" /\ arg.h = 500 /\ arg.w = 500
    /\ <<36, 36>> \in DOMAIN arg.planes[1]
    /\ <<0, 0>> \in res.fg

NumTimes(a, m) == Num(a.n * m, a.k * m, a.d)

SummaryShape ==
    /\ Len(res.rows) = Len(arg.df.rows) + 1
    /\ \A i \in 1..Len(arg.df.rows) :
          \A c \in Range(arg.df.columns) : res.rows[i][c] = arg.df.rows[i][c]
    /\ ~IsNum(res.rows[Len(res.rows)]["File Number"])
    /\ res.rows[Len(res.rows)]["File Number"] = Text(arg.label)

MeanIn(c) ==
    LET last == res.rows[Len(res.rows)][c]
        n    == Len(arg.df.rows)
    IN  /\ IsNum(last)
        /\ NumTimes(last, n) = column_sum(arg.df.rows, c, n)

Ids(files) == {extract_number(files[i]) : i \in 1..Len(files)}
CommonIds == Ids(roi_files) \cap Ids(gt_files) \cap Ids(track_files)
AllIds == Ids(roi_files) \cup Ids(gt_files) \cup Ids(track_files)

\* C1: _align_files returns one triplet per identifier common to the three lists,
\* in strictly ascending order, each of its names extracting to its identifier,
\* and reports as missing exactly the other identifiers of the three lists.
C1_AlignedIsIntersection ==
    pc # "init" =>
        /\ Len(file_triplets) = Cardinality(CommonIds)
        /\ {file_triplets[i][1] : i \in 1..Len(file_triplets)} = CommonIds
        /\ \A i, j \in 1..Len(file_triplets) :
              i < j => file_triplets[i][1] < file_triplets[j][1]
        /\ \A i \in 1..Len(file_triplets) :
              /\ file_triplets[i][2] \in Range(roi_files)
              /\ file_triplets[i][3] \in Range(gt_files)
              /\ file_triplets[i][4] \in Range(track_files)
              /\ extract_number(file_triplets[i][2]) = file_triplets[i][1]
              /\ extract_number(file_triplets[i][3]) = file_triplets[i][1]
              /\ extract_number(file_triplets[i][4]) = file_triplets[i][1]
        /\ warned = AllIds \ CommonIds

\* two identifiers aligned, and one only the track tables hold reported
C1_Witness ==
    /\ pc # "init" /\ Len(file_triplets) = 2
    /\ \E n \in warned : n \in Ids(track_files) /\ n \notin Ids(roi_files)

\* C2: with no identifier in common the constructor raises ValueError before
\* reading any file and before creating self.data; when it succeeds self.data
\* holds one entry per triplet, at least one, in the triplets' ascending order.
C2_EmptyAlignmentRaises ==
    pc # "init" =>
        /\ CommonIds = {} =>
              /\ pc = "failed" /\ err = "ValueError"
              /\ io_log = <<>> /\ ~data.set /\ data.list = <<>>
        /\ pc = "constructed" =>
              /\ data.set /\ Len(data.list) >= 1
              /\ Len(data.list) = Len(file_triplets)
              /\ \A i \in 1..Len(data.list) :
                    /\ data.list[i].file_number = file_triplets[i][1]
                    /\ data.list[i].roi_file = file_triplets[i][2]
                    /\ data.list[i].gt_file = file_triplets[i][3]
                    /\ data.list[i].track_file = file_triplets[i][4]
              /\ \A i, j \in 1..Len(data.list) :
                    i < j => data.list[i].file_number < data.list[j].file_number

\* three non-empty collections without a common identifier
C2_Witness ==
    /\ pc = "failed" /\ err = "ValueError"
    /\ roi_files # <<>> /\ gt_files # <<>> /\ track_files # <<>>

TimesListed(f, k) == Cardinality({i \in 1..Len(file_triplets) : file_triplets[i][k] = f})

\* C9: every listed file whose identifier all three collections hold is in
\* exactly one aligned triplet.
C9_EveryMatchingFileAligned ==
    pc # "init" =>
        /\ \A f \in Range(roi_files) : extract_number(f) \in CommonIds => TimesListed(f, 2) = 1
        /\ \A f \in Range(gt_files) : extract_number(f) \in CommonIds => TimesListed(f, 3) = 1
        /\ \A f \in Range(track_files) : extract_number(f) \in CommonIds => TimesListed(f, 4) = 1

\* C3: when a step of the run has raised, the workbook has neither been opened
\* nor been given a sheet.
C3_NoOutputOnFailure ==
    err # "none" => (~workbook.opened /\ workbook.sheets = <<>>)

TrackIds == {r.TrackID : r \in RowPool}

\* the identifier is one of those joined in the cell
ListedIn(cell, id) ==
    \E S \in SUBSET TrackIds : id \in S /\ cell = Text(join_ids(sorted(S)))

OnForeground(mask, r) == <<r.Ypx, r.Xpx>> \in mask.fg

FirstFrameRows(entry) == {r \in Range(entry.tracks.rows) : r.Frame = 1}

TrackTableReturned == pc = "evaluated" /\ track_table # EmptyTable

\* C4 as stated: a track with a frame-1 row on ground-truth foreground and
\* predicted background is listed as lost and not as extra.
C4_LostNeverExtra ==
    TrackTableReturned =>
        \A i \in 1..Len(data.list) :
            \A r \in FirstFrameRows(data.list[i]) :
                (OnForeground(data.list[i].gt_mask, r) /\ ~OnForeground(data.list[i].roi_mask, r)) =>
                    /\ ListedIn(track_table.rows[i]["Lost Track IDs"], r.TrackID)
                    /\ ~ListedIn(track_table.rows[i]["Extra Track IDs"], r.TrackID)

\* C4 as amended: such a track is never listed as extra, and is listed as lost
\* unless another frame-1 row of the same Track ID lies on predicted foreground.
C4_LostUnlessOtherRowPredicted ==
    TrackTableReturned =>
        \A i \in 1..Len(data.list) :
            \A r \in FirstFrameRows(data.list[i]) :
                (OnForeground(data.list[i].gt_mask, r) /\ ~OnForeground(data.list[i].roi_mask, r)) =>
                    /\ ~ListedIn(track_table.rows[i]["Extra Track IDs"], r.TrackID)
                    /\ (\A o \in FirstFrameRows(data.list[i]) :
                            o.TrackID = r.TrackID => ~OnForeground(data.list[i].roi_mask, o))
                        => ListedIn(track_table.rows[i]["Lost Track IDs"], r.TrackID)
                    /\ track_table.rows[i]["Num Lost"].n
                          = Cardinality(gt_ids(data.list[i]) \ pred_ids(data.list[i]))

\* a track on ground-truth foreground and predicted background was listed as lost
C4_Witness ==
    /\ TrackTableReturned
    /\ \E r \in FirstFrameRows(data.list[1]) :
          /\ OnForeground(data.list[1].gt_mask, r)
          /\ ~OnForeground(data.list[1].roi_mask, r)
          /\ ListedIn(track_table.rows[1]["Lost Track IDs"], r.TrackID)
          /\ track_table.rows[1]["Num Lost"] = One

\* the pixels of the ground-truth grid that are foreground in both masks, an axis
\* of length 1 of the predicted mask read at its only index
BothForeground(roi, gt) ==
    {p \in gt.fg : <<IF roi.h = 1 THEN 0 ELSE p[1], IF roi.w = 1 THEN 0 ELSE p[2]>> \in roi.fg}

\* C7: every row of evaluate_mask_metrics holds Intersection = the number of
\* pixels foreground in both masks and False Positives = |predicted| -
\* Intersection >= 0; two all-zero masks give 1, 1, 0, 0.
C7_FalsePositivesCount ==
    (pc = "evaluated" /\ mask_table # EmptyTable) =>
        \A i \in 1..Len(data.list) :
            LET roi == data.list[i].roi_mask
                gt  == data.list[i].gt_mask
                row == mask_table.rows[i]
            IN  /\ row["Intersection"] = IntNum(Cardinality(BothForeground(roi, gt)))
                /\ ~IsNegative(row["False Positives"])
                /\ NumAdd(row["Intersection"], row["False Positives"])
                      = IntNum(Cardinality(roi.fg))
                /\ (roi.fg = {} /\ gt.fg = {}) =>
                      /\ row["Jaccard Index"] = One /\ row["Dice Coefficient"] = One
                      /\ row["Intersection"] = Zero /\ row["False Positives"] = Zero

====
